---- MODULE Spec2Model ----
(***************************************************************************)
(* dl-classifier/scripts/pt.py: one run of the script, from the seeding of *)
(* the generators in __main__ through do_it to the saved predictions, with *)
(* train_model's loop unfolded phase by phase and batch by batch.          *)
(*                                                                         *)
(* Tensors are abstracted to one integer per layer; an accuracy is the     *)
(* pair (correct predictions, data set size) that the code divides.  The   *)
(* running loss is only printed and is left out, and so is the elapsed     *)
(* time train_model prints.                                                *)
(***************************************************************************)
EXTENDS Integers, Sequences, FiniteSets, TLC

VARIABLES
    args,             \* the parsed command line (parse_args)
    env,              \* what the run finds outside: data set sizes, classes, the checkpoint, the time
    pc,               \* the statement of do_it / train_model that runs next
    now,              \* the clock, in milliseconds past the epoch
    data_transforms,  \* do_it: data_transforms
    dataset_sizes,    \* do_it: dataset_sizes
    num_classes,      \* do_it: num_classes
    model,            \* do_it: model
    printed,          \* what get_model printed, in order
    optimizer,        \* do_it: optimizer (its parameters and momentum buffers)
    last_epoch,       \* do_it: scheduler (StepLR's last_epoch)
    is_inception,     \* do_it: is_inception
    epoch,            \* train_model: epoch
    phase,            \* train_model: index into ['train', 'test']
    batch,            \* train_model: batches of the current phase consumed so far
    running_corrects, \* train_model: running_corrects
    best_acc,         \* train_model: best_acc
    best_model_wts,   \* train_model: best_model_wts
    history,          \* every phase train_model has finished, in order
    calls,            \* counters of the calls made: backward, optimizer.step, do_it's get_ms_past_epoch
    iterated,         \* the data loaders train_model has iterated
    ms,               \* do_it: ms
    saved,            \* the weight files written by save_model, in order
    predictions,      \* the calls of save_predictions, in order
    seed,             \* __main__: seed, once random and torch are seeded with it
    rerun             \* a second run of the same command line over the same data

vars == <<args, env, pc, now, data_transforms, dataset_sizes, num_classes, model,
          printed, optimizer, last_epoch, is_inception, epoch, phase, batch,
          running_corrects, best_acc, best_model_wts, history, calls, iterated,
          ms, saved, predictions, seed, rerun>>

\* ------------------------------------------------------------------ bounds

MaxEpochs == 2
MaxItems == 2
MaxClasses == 2
MaxClock == 2
MaxSteps == 2

\* ------------------------------------------------------- optional values

\* Python's None and a present value, as a sequence of length 0 or 1.
None == <<>>
Some(x) == <<x>>
IsNone(o) == Len(o) = 0
Val(o) == o[1]

Min(a, b) == IF a <= b THEN a ELSE b

\* str.strip(): leading and trailing blanks removed.  A string is a sequence
\* of characters.
RECURSIVE LStrip(_)
LStrip(s) == IF Len(s) > 0 /\ Head(s) = " " THEN LStrip(Tail(s)) ELSE s

RECURSIVE RStrip(_)
RStrip(s) ==
    IF Len(s) > 0 /\ s[Len(s)] = " " THEN RStrip(SubSeq(s, 1, Len(s) - 1)) ELSE s

Strip(s) == RStrip(LStrip(s))

\* ------------------------------------------------------ name decisions

get_input_size(model_type) == IF "inception_v3" = model_type THEN 299 ELSE 224

determine_inception(model_type) == IF model_type = "inception_v3" THEN TRUE ELSE FALSE

\* ------------------------------------------------------------ the zoo

\* The names create_model has a branch for, other than its else branch.
BranchNames ==
    {"resnet18", "resnet34", "resnet50", "resnet101", "resnet152", "alexnet",
     "vgg11", "vgg11_bn", "vgg13", "vgg13_bn", "vgg16", "vgg16_bn", "vgg19",
     "vgg19_bn", "squeezenet1_0", "squeezenet1_1", "densenet121", "densenet161",
     "densenet169", "densenet201", "googlenet", "shufflenet_v2_x0_5",
     "shufflenet_v2_x1_0", "mobilenet_v2", "resnext50_32x4d", "resnext101_32x8d",
     "wide_resnet50_2", "wide_resnet101_2", "mnasnet0_5", "mnasnet1_0"}

\* The torchvision class the constructor called by each branch returns; the
\* else branch constructs Inception v3 whatever the name.
ZooClass(model_type) ==
    CASE model_type \in {"resnet18", "resnet34", "resnet50", "resnet101", "resnet152",
                         "resnext50_32x4d", "resnext101_32x8d", "wide_resnet50_2",
                         "wide_resnet101_2"} -> "ResNet"
      [] model_type = "alexnet" -> "AlexNet"
      [] model_type \in {"vgg11", "vgg11_bn", "vgg13", "vgg13_bn", "vgg16", "vgg16_bn",
                         "vgg19", "vgg19_bn"} -> "VGG"
      [] model_type \in {"squeezenet1_0", "squeezenet1_1"} -> "SqueezeNet"
      [] model_type \in {"densenet121", "densenet161", "densenet169", "densenet201"}
            -> "DenseNet"
      [] model_type = "googlenet" -> "GoogLeNet"
      [] model_type \in {"shufflenet_v2_x0_5", "shufflenet_v2_x1_0"} -> "ShuffleNetV2"
      [] model_type = "mobilenet_v2" -> "MobileNetV2"
      [] model_type \in {"mnasnet0_5", "mnasnet1_0"} -> "MNASNet"
      [] OTHER -> "Inception3"

\* The layer each class computes its output with.
OutputLayer(cls) ==
    CASE cls \in {"ResNet", "GoogLeNet", "ShuffleNetV2", "Inception3"} -> "fc"
      [] cls \in {"AlexNet", "VGG"} -> "classifier[6]"
      [] cls \in {"SqueezeNet", "MobileNetV2", "MNASNet"} -> "classifier[1]"
      [] cls = "DenseNet" -> "classifier"

\* The auxiliary classification layers of a class.
AuxLayers(cls) == IF cls = "Inception3" THEN {"AuxLogits.fc"} ELSE {}

\* The layers of a class that produce class scores.
HeadLayers(cls) == {OutputLayer(cls)} \cup AuxLayers(cls)

\* The parameters of a model, one per layer: the pretrained feature layers
\* taken together, and each layer that produces class scores.
ClassLayers(cls) == {"backbone"} \cup HeadLayers(cls)

\* The attributes a branch of create_model replaces, in the order it does.
BranchHeads(model_type) ==
    CASE model_type \in {"resnet18", "resnet34", "resnet50", "resnet101", "resnet152",
                         "googlenet", "shufflenet_v2_x0_5", "shufflenet_v2_x1_0",
                         "resnext101_32x8d", "wide_resnet50_2", "wide_resnet101_2"}
            -> <<"fc">>
      [] model_type \in {"alexnet", "vgg11", "vgg11_bn", "vgg13", "vgg13_bn", "vgg16",
                         "vgg16_bn", "vgg19", "vgg19_bn"} -> <<"classifier[6]">>
      [] model_type \in {"squeezenet1_0", "squeezenet1_1", "mobilenet_v2",
                         "resnext50_32x4d", "mnasnet0_5", "mnasnet1_0"}
            -> <<"classifier[1]">>
      [] model_type \in {"densenet121", "densenet161", "densenet169", "densenet201"}
            -> <<"classifier">>
      [] OTHER -> <<"AuxLogits.fc", "fc">>

\* models.<name>(pretrained=pretrained): every parameter requires a gradient,
\* none has one yet, every head has ImageNet's 1000 outputs, and a module
\* starts in training mode.
Construct(cls, pretrained) ==
    [cls |-> cls,
     pretrained |-> pretrained,
     out |-> [l \in HeadLayers(cls) |-> 1000],
     requires_grad |-> [l \in ClassLayers(cls) |-> TRUE],
     fresh |-> [l \in ClassLayers(cls) |-> FALSE],
     wts |-> [l \in ClassLayers(cls) |-> 0],
     grad |-> [l \in ClassLayers(cls) |-> None],
     training |-> TRUE]

NoModel ==
    [cls |-> "none", pretrained |-> FALSE, out |-> <<>>, requires_grad |-> <<>>,
     fresh |-> <<>>, wts |-> <<>>, grad |-> <<>>, training |-> FALSE]

set_parameter_requires_grad(m, feature_extracting) ==
    IF feature_extracting
    THEN [m EXCEPT !.requires_grad = [l \in DOMAIN m.requires_grad |-> FALSE]]
    ELSE m

\* model.<attr> = nn.Linear(..., num_classes) (nn.Conv2d for SqueezeNet): a
\* new layer, which requires a gradient as every new layer does.
AttachLayer(m, attr, classes) ==
    [m EXCEPT !.out[attr] = classes,
              !.requires_grad[attr] = TRUE,
              !.fresh[attr] = TRUE,
              !.wts[attr] = 0,
              !.grad[attr] = None]

\* The head replacements of one branch.  Reading model.<attr> of a class
\* that has no such attribute raises AttributeError.
RECURSIVE AttachHeads(_, _, _)
AttachHeads(r, attrs, classes) ==
    IF attrs = <<>> \/ ~r.ok THEN r
    ELSE IF Head(attrs) \notin HeadLayers(r.model.cls)
         THEN [ok |-> FALSE, model |-> NoModel]
         ELSE AttachHeads([ok |-> TRUE,
                           model |-> AttachLayer(r.model, Head(attrs), classes)],
                          Tail(attrs), classes)

\* The parameters frozen after the new heads are attached.
create_model_freeze_last(model_type, classes, feature_extract, pretrained) ==
    LET r == AttachHeads([ok |-> TRUE,
                          model |-> Construct(ZooClass(model_type), pretrained)],
                         BranchHeads(model_type), classes) IN
    [ok |-> r.ok,
     model |-> IF r.ok THEN set_parameter_requires_grad(r.model, feature_extract)
               ELSE r.model]

\* create_model: [ok |-> whether it returns, model |-> what it returns].
create_model(model_type, classes, feature_extract, pretrained) ==
    AttachHeads([ok |-> TRUE,
                 model |-> set_parameter_requires_grad(
                               Construct(ZooClass(model_type), pretrained),
                               feature_extract)],
                BranchHeads(model_type), classes)

\* torch.load(model_path) followed by model.load_state_dict: the file must
\* exist and unpickle, and hold the tensors of this very architecture with
\* these very shapes.
Loadable(ckpt, m) ==
    /\ ckpt.state = "ok"
    /\ ckpt.cls = m.cls
    /\ ckpt.classes = m.out[OutputLayer(m.cls)]

load_model(model_type, classes, feature_extract, ckpt) ==
    LET r == create_model(model_type, classes, feature_extract, FALSE) IN
    IF r.ok /\ Loadable(ckpt, r.model)
    THEN [ok |-> TRUE,
          model |-> [r.model EXCEPT !.wts = [l \in DOMAIN r.model.wts |-> ckpt.wts]]]
    ELSE [ok |-> FALSE, model |-> NoModel]

\* Whether get_model takes the branch that loads nothing.
BlankPath(model_path) == IsNone(model_path) \/ Len(Strip(Val(model_path))) = 0

\* get_model: [ok, model, printed].
get_model(model_type, classes, feature_extract, pretrained, model_path, ckpt) ==
    IF BlankPath(model_path)
    THEN LET r == create_model(model_type, classes, feature_extract, pretrained) IN
         [ok |-> r.ok, model |-> r.model, printed |-> <<"creating new model">>]
    ELSE LET l == load_model(model_type, classes, feature_extract, ckpt) IN
         IF l.ok
         THEN [ok |-> TRUE, model |-> l.model, printed |-> <<"loading model">>]
         ELSE LET r == create_model(model_type, classes, feature_extract, pretrained) IN
              [ok |-> r.ok, model |-> r.model,
               printed |-> <<"loading model", "could not load model">>]

\* ------------------------------------------------------------ transforms

Samples == {"train", "test", "valid"}

\* oneoffcoder.transform.get_default_transforms: one pipeline per phase,
\* with augmentation for train and a fixed resize and crop for test and valid.
get_default_transforms(input_size) ==
    [p \in Samples |->
        IF p = "train"
        THEN <<[type |-> "RandomResizedCrop", arg |-> input_size],
               [type |-> "RandomHorizontalFlip", arg |-> 0],
               [type |-> "ToTensor", arg |-> 0]>>
        ELSE <<[type |-> "Resize", arg |-> input_size],
               [type |-> "CenterCrop", arg |-> input_size],
               [type |-> "ToTensor", arg |-> 0]>>]

\* One -t option, (phase, type, name, order, params), keeps its phase, type,
\* order and parameter here.
RECURSIVE InsertByOrder(_, _)
InsertByOrder(sorted, s) ==
    IF sorted = <<>> THEN <<s>>
    ELSE IF s.order < Head(sorted).order THEN <<s>> \o sorted
         ELSE <<Head(sorted)>> \o InsertByOrder(Tail(sorted), s)

RECURSIVE SortByOrder(_)
SortByOrder(steps) ==
    IF steps = <<>> THEN <<>>
    ELSE InsertByOrder(SortByOrder(SubSeq(steps, 1, Len(steps) - 1)), steps[Len(steps)])

\* The steps given for phase p that are not excluded (order -1), in the
\* order they were given.
RECURSIVE StepsOf(_, _)
StepsOf(steps, p) ==
    IF steps = <<>> THEN <<>>
    ELSE (IF Head(steps).phase = p /\ Head(steps).order # -1 THEN <<Head(steps)>> ELSE <<>>)
         \o StepsOf(Tail(steps), p)

\* oneoffcoder.transform.get_transforms: the steps grouped by phase, those
\* with order -1 dropped, the others sorted by order ascending; a phase is a
\* key of the result when a step was given for it.
get_transforms(steps) ==
    [p \in {steps[i].phase : i \in DOMAIN steps} |->
        LET sorted == SortByOrder(StepsOf(steps, p)) IN
        [i \in DOMAIN sorted |-> [type |-> sorted[i].type, arg |-> sorted[i].arg]]]

\* The given steps appended to the default pipeline.
Override_merged(def_transforms, arg_transforms, p) ==
    IF p \in DOMAIN arg_transforms
    THEN [def_transforms EXCEPT ![p] = @ \o arg_transforms[p]]
    ELSE def_transforms

\* if p in arg_transforms: def_transforms[p] = arg_transforms[p]
Override(def_transforms, arg_transforms, p) ==
    IF p \in DOMAIN arg_transforms
    THEN [def_transforms EXCEPT ![p] = arg_transforms[p]]
    ELSE def_transforms

get_data_transforms(input_size, args_transform) ==
    LET def_transforms == get_default_transforms(input_size) IN
    IF ~IsNone(args_transform)
    THEN LET arg_transforms == get_transforms(Val(args_transform)) IN
         Override(Override(Override(def_transforms, arg_transforms, "train"),
                           arg_transforms, "test"),
                  arg_transforms, "valid")
    ELSE def_transforms

\* ------------------------------------------------------------ data loaders

\* len(DataLoader): the batches of a split of n items.
NumBatches(n, batch_size) == (n + batch_size - 1) \div batch_size

\* inputs.size(0) of the i-th batch (from 1) of a split of n items.
BatchLen(n, batch_size, i) == Min(batch_size, n - (i - 1) * batch_size)

\* ------------------------------------------------------------ the optimizer

\* do_it's params_to_update: every parameter, or with -f those that still
\* require a gradient.
params_to_update(m, feature_extract) ==
    IF feature_extract
    THEN {l \in DOMAIN m.requires_grad : m.requires_grad[l] = TRUE}
    ELSE DOMAIN m.requires_grad

\* optim.SGD(params_to_update, **optimizer_params): no momentum buffer yet.
get_optimizer(params, momentum) ==
    [params |-> params, momentum |-> momentum, buf |-> [l \in params |-> None]]

\* The momentum buffer of parameter l after a step that sees gradient d.
NextBuf(opt, l, d) ==
    IF opt.momentum = 0 THEN opt.buf[l]
    ELSE IF IsNone(opt.buf[l]) THEN Some(d)
         ELSE Some(opt.momentum * Val(opt.buf[l]) + d)

\* optimizer.step() of SGD at learning rate 1: a parameter without a
\* gradient is skipped; the others move against the gradient, or against the
\* momentum buffer when momentum is set.
SgdStep(m, opt) ==
    LET stepped == {l \in opt.params : ~IsNone(m.grad[l])}
        buf == [l \in opt.params |->
                   IF l \in stepped THEN NextBuf(opt, l, Val(m.grad[l])) ELSE opt.buf[l]]
        d(l) == IF opt.momentum = 0 THEN Val(m.grad[l]) ELSE Val(buf[l])
    IN [model |-> [m EXCEPT !.wts = [l \in DOMAIN m.wts |->
                                        IF l \in stepped THEN m.wts[l] - d(l)
                                        ELSE m.wts[l]]],
        optimizer |-> [opt EXCEPT !.buf = buf]]

\* optimizer.zero_grad(): the gradients of the optimizer's parameters are
\* zeroed or, with set_to_none, dropped.
zero_grad(m, opt, set_to_none) ==
    [m EXCEPT !.grad = [l \in DOMAIN m.grad |->
                           IF l \in opt.params /\ ~IsNone(m.grad[l])
                           THEN (IF set_to_none THEN None ELSE Some(0))
                           ELSE m.grad[l]]]

\* loss.backward(): gradient g is added to every parameter that requires one.
backward(m, g) ==
    [m EXCEPT !.grad = [l \in DOMAIN m.grad |->
                           IF m.requires_grad[l]
                           THEN Some((IF IsNone(m.grad[l]) THEN 0 ELSE Val(m.grad[l])) + g)
                           ELSE m.grad[l]]]

\* copy.deepcopy(model.state_dict())
state_dict(m) == m.wts

\* The best weights never loaded back.
load_state_dict_skipped(m, wts) == m

\* model.load_state_dict(wts)
load_state_dict(m, wts) == [m EXCEPT !.wts = wts]

\* An accuracy is corrects / size; a > b on two of them.
Acc(corrects, size) == [num |-> corrects, den |-> size]
AccGT(a, b) == a.num * b.den > b.num * a.den

\* ------------------------------------------------------------ the run

\* for phase in ['train', 'test']
Phases == <<"train", "test">>

\* The gradients a backward pass may leave (one value for all parameters).
Grads == {1}

\* save_model's default for ms, evaluated once when the function is defined.
ImportTimeMs == 0

\* get_ms_past_epoch(): the clock never runs backwards, and the run is over
\* by env.latest.
ClockReadings == now..env.latest

\* The state do_it starts in.
Start(a, e) ==
    /\ args = a
    /\ env = e
    /\ pc = "seed"
    /\ seed = None
    /\ rerun = [seed |-> None, running_corrects |-> 0, accs |-> <<>>]
    /\ now = ImportTimeMs
    /\ data_transforms = <<>>
    /\ dataset_sizes = <<>>
    /\ num_classes = 0
    /\ model = NoModel
    /\ printed = <<>>
    /\ optimizer = get_optimizer({}, 0)
    /\ last_epoch = -1
    /\ is_inception = FALSE
    /\ epoch = 0
    /\ phase = 1
    /\ batch = 0
    /\ running_corrects = 0
    /\ best_acc = Acc(0, 1)
    /\ best_model_wts = <<>>
    /\ history = <<>>
    /\ calls = [backward |-> 0, step |-> 0, get_ms |-> 0]
    /\ iterated = {}
    /\ ms = None
    /\ saved = <<>>
    /\ predictions = <<>>

\* The value the generators are seeded with, t being the clock's reading.
SeedValue(s, t) == IF s > 0 THEN s ELSE t

\* __main__: seed = args.seed if args.seed > 0 else get_ms_past_epoch(), then
\* random.seed(seed) and torch.manual_seed(seed); do_it follows.  The second
\* run does the same at a time of its own.
SeedGenerators ==
    /\ pc = "seed"
    /\ IF args.seed > 0
       THEN /\ seed' = Some(SeedValue(args.seed, now))
            /\ rerun' = [rerun EXCEPT !.seed = Some(SeedValue(args.seed, now))]
            /\ now' = now
       ELSE \E t \in ClockReadings, t2 \in ImportTimeMs..env.latest :
            /\ seed' = Some(SeedValue(args.seed, t))
            /\ rerun' = [rerun EXCEPT !.seed = Some(SeedValue(args.seed, t2))]
            /\ now' = t
    /\ pc' = "transforms"
    /\ UNCHANGED <<args, env, data_transforms, dataset_sizes, num_classes, model, printed,
                   optimizer, last_epoch, is_inception, epoch, phase, batch,
                   running_corrects, best_acc, best_model_wts, history, calls, iterated,
                   ms, saved, predictions>>

\* do_it: data_transforms = get_data_transforms(input_size, args.transform)
CreateDataTransforms ==
    /\ pc = "transforms"
    /\ data_transforms' = get_data_transforms(get_input_size(args.model_type), args.transform)
    /\ pc' = "loaders"
    /\ UNCHANGED <<seed, rerun, args, env, now, dataset_sizes, num_classes, model, printed, optimizer,
                   last_epoch, is_inception, epoch, phase, batch, running_corrects,
                   best_acc, best_model_wts, history, calls, iterated, ms, saved,
                   predictions>>

\* do_it: dataloaders, dataset_sizes, _, num_classes = get_dataloaders(...)
CreateDataLoaders ==
    /\ pc = "loaders"
    /\ dataset_sizes' = env.sizes
    /\ num_classes' = env.classes
    /\ pc' = "get_model"
    /\ UNCHANGED <<seed, rerun, args, env, now, data_transforms, model, printed, optimizer,
                   last_epoch, is_inception, epoch, phase, batch, running_corrects,
                   best_acc, best_model_wts, history, calls, iterated, ms, saved,
                   predictions>>

\* do_it: model = get_model(...); an exception that escapes get_model ends
\* the run.
ConstructModel ==
    /\ pc = "get_model"
    /\ LET r == get_model(args.model_type, num_classes, args.feature_extract,
                          args.pretrained, args.load_model, env.ckpt) IN
        /\ printed' = printed \o r.printed
        /\ model' = r.model
        /\ pc' = IF r.ok THEN "optimizer" ELSE "error"
    /\ UNCHANGED <<seed, rerun, args, env, now, data_transforms, dataset_sizes, num_classes,
                   optimizer, last_epoch, is_inception, epoch, phase, batch,
                   running_corrects, best_acc, best_model_wts, history, calls, iterated,
                   ms, saved, predictions>>

\* do_it: params_to_update, the optimizer, the scheduler (StepLR starts at
\* last_epoch 0), num_epochs and is_inception.
ConstructOptimizer ==
    /\ pc = "optimizer"
    /\ optimizer' = get_optimizer(params_to_update(model, args.feature_extract),
                                  args.momentum)
    /\ last_epoch' = 0
    /\ is_inception' = determine_inception(args.model_type)
    /\ pc' = "train_entry"
    /\ UNCHANGED <<seed, rerun, args, env, now, data_transforms, dataset_sizes, num_classes, model,
                   printed, epoch, phase, batch, running_corrects, best_acc,
                   best_model_wts, history, calls, iterated, ms, saved, predictions>>

\* train_model, up to its loop: the first snapshot and best_acc = 0.0.
TrainEntry ==
    /\ pc = "train_entry"
    /\ best_model_wts' = state_dict(model)
    /\ best_acc' = Acc(0, 1)
    /\ epoch' = 0
    /\ pc' = "epoch_start"
    /\ UNCHANGED <<seed, rerun, args, env, now, data_transforms, dataset_sizes, num_classes, model,
                   printed, optimizer, last_epoch, is_inception, phase, batch,
                   running_corrects, history, calls, iterated, ms, saved, predictions>>

\* The loop running one epoch too many.
InRange_inclusive(e, num_epochs) == e <= num_epochs

\* Whether range(num_epochs) yields epoch e.
InRange(e, num_epochs) == e < num_epochs

\* for epoch in range(num_epochs)
EpochStart ==
    /\ pc = "epoch_start"
    /\ IF InRange(epoch, args.epochs)
       THEN phase' = 1 /\ pc' = "phase_start"
       ELSE phase' = phase /\ pc' = "load_best"
    /\ UNCHANGED <<seed, rerun, args, env, now, data_transforms, dataset_sizes, num_classes, model,
                   printed, optimizer, last_epoch, is_inception, epoch, batch,
                   running_corrects, best_acc, best_model_wts, history, calls, iterated,
                   ms, saved, predictions>>

\* The head of the training phase run at the head of every phase.
TrainingPhase_any(ph) == TRUE

\* if phase == 'train', at the head of a phase.
TrainingPhase(ph) == ph = "train"

\* The head of a phase: in 'train' optimizer.step(), scheduler.step() and
\* model.train(), in 'test' model.eval(); then the running sums are reset
\* and the phase's loader is opened.
PhaseStart ==
    /\ pc = "phase_start"
    /\ IF TrainingPhase(Phases[phase])
       THEN LET s == SgdStep(model, optimizer) IN
            /\ model' = [s.model EXCEPT !.training = TRUE]
            /\ optimizer' = s.optimizer
            /\ last_epoch' = last_epoch + 1
            /\ calls' = [calls EXCEPT !.step = @ + 1]
       ELSE /\ model' = [model EXCEPT !.training = FALSE]
            /\ UNCHANGED <<optimizer, last_epoch, calls>>
    /\ running_corrects' = 0
    /\ rerun' = [rerun EXCEPT !.running_corrects = 0]
    /\ batch' = 0
    /\ iterated' = iterated \cup {Phases[phase]}
    /\ pc' = "batch"
    /\ UNCHANGED <<seed, args, env, now, data_transforms, dataset_sizes, num_classes,
                   printed, is_inception, epoch, phase, best_acc, best_model_wts,
                   history, ms, saved, predictions>>

\* Whether model(inputs) returns the auxiliary output beside the primary one.
ReturnsAux(m) == m.training /\ AuxLayers(m.cls) # {}

\* if is_inception and phase == 'train': the loss is that of the primary
\* output plus 0.4 times that of the auxiliary output.
AuxLoss(inception, ph) == inception /\ ph = "train"

\* Whether the forward pass and the loss of a batch raise: the training
\* branch for Inception unpacks two outputs, the other takes one tensor.
ForwardRaises(m, inception, ph) ==
    IF AuxLoss(inception, ph) THEN ~ReturnsAux(m) ELSE ReturnsAux(m)

\* Backward pass and optimizer step run in every phase.
BackpropPhase_any(ph) == TRUE

\* if phase == 'train', around loss.backward() and optimizer.step().
BackpropPhase(ph) == ph = "train"

\* The model and the optimizer after one batch of phase ph with gradient g.
BatchUpdate(m, opt, ph, g) ==
    LET z == zero_grad(m, opt, env.set_to_none) IN
    IF BackpropPhase(ph) THEN SgdStep(backward(z, g), opt)
    ELSE [model |-> z, optimizer |-> opt]

\* The correct predictions the second run counts in a batch of len samples
\* in which this run counts c: the order of the samples, their augmentation
\* and the new layers' first weights are drawn from the generators, so the
\* two runs compute the same where these were seeded alike, and need not
\* where they were not.
RerunCorrects(c, len) == IF rerun.seed = seed THEN {c} ELSE 0..len

\* for inputs, labels in dataloaders[phase]: one batch, or the end of the
\* loader.
BatchStep ==
    /\ pc = "batch"
    /\ LET ph == Phases[phase]
           n == dataset_sizes[ph] IN
       IF batch < NumBatches(n, args.batch_size)
       THEN IF ForwardRaises(model, is_inception, ph)
            THEN /\ model' = zero_grad(model, optimizer, env.set_to_none)
                 /\ pc' = "error"
                 /\ UNCHANGED <<optimizer, batch, running_corrects, calls, rerun>>
            ELSE \E g \in Grads :
                 \E c \in 0..BatchLen(n, args.batch_size, batch + 1) :
                 \E c2 \in RerunCorrects(c, BatchLen(n, args.batch_size, batch + 1)) :
                    LET u == BatchUpdate(model, optimizer, ph, g) IN
                    /\ rerun' = [rerun EXCEPT !.running_corrects = @ + c2]
                    /\ model' = u.model
                    /\ optimizer' = u.optimizer
                    /\ calls' = IF BackpropPhase(ph)
                                THEN [calls EXCEPT !.backward = @ + 1, !.step = @ + 1]
                                ELSE calls
                    /\ running_corrects' = running_corrects + c
                    /\ batch' = batch + 1
                    /\ pc' = "batch"
       ELSE /\ pc' = "phase_end"
            /\ UNCHANGED <<model, optimizer, batch, running_corrects, calls, rerun>>
    /\ UNCHANGED <<seed, args, env, now, data_transforms, dataset_sizes, num_classes,
                   printed, last_epoch, is_inception, epoch, phase, best_acc,
                   best_model_wts, history, iterated, ms, saved, predictions>>

\* The snapshot taken at the end of a training phase as well.
Improves_any_phase(ph, epoch_acc, best) == AccGT(epoch_acc, best)

\* The snapshot taken on a tie as well.
Improves_on_tie(ph, epoch_acc, best) == ph = "test" /\ ~AccGT(best, epoch_acc)

\* if phase == 'test' and epoch_acc > best_acc
Improves(ph, epoch_acc, best) == ph = "test" /\ AccGT(epoch_acc, best)

\* The tail of a phase: the epoch's accuracy, and the snapshot when it is
\* the best so far.
PhaseEnd ==
    /\ pc = "phase_end"
    /\ LET ph == Phases[phase]
           epoch_acc == Acc(running_corrects, dataset_sizes[ph]) IN
        /\ history' = Append(history, [phase |-> ph, epoch |-> epoch, acc |-> epoch_acc,
                                       batches |-> batch, wts |-> state_dict(model)])
        /\ rerun' = [rerun EXCEPT !.accs = Append(@, Acc(rerun.running_corrects,
                                                         dataset_sizes[ph]))]
        /\ IF Improves(ph, epoch_acc, best_acc)
           THEN best_acc' = epoch_acc /\ best_model_wts' = state_dict(model)
           ELSE UNCHANGED <<best_acc, best_model_wts>>
    /\ IF phase < Len(Phases)
       THEN phase' = phase + 1 /\ pc' = "phase_start"
       ELSE phase' = phase /\ pc' = "epoch_end"
    /\ UNCHANGED <<seed, args, env, now, data_transforms, dataset_sizes, num_classes, model,
                   printed, optimizer, last_epoch, is_inception, epoch, batch,
                   running_corrects, calls, iterated, ms, saved, predictions>>

\* The end of an epoch: its results are printed.
EpochEnd ==
    /\ pc = "epoch_end"
    /\ epoch' = epoch + 1
    /\ pc' = "epoch_start"
    /\ UNCHANGED <<seed, rerun, args, env, now, data_transforms, dataset_sizes, num_classes, model,
                   printed, optimizer, last_epoch, is_inception, phase, batch,
                   running_corrects, best_acc, best_model_wts, history, calls, iterated,
                   ms, saved, predictions>>

\* train_model's end: model.load_state_dict(best_model_wts); return model.
LoadBest ==
    /\ pc = "load_best"
    /\ model' = load_state_dict(model, best_model_wts)
    /\ pc' = "get_ms"
    /\ UNCHANGED <<seed, rerun, args, env, now, data_transforms, dataset_sizes, num_classes,
                   printed, optimizer, last_epoch, is_inception, epoch, phase, batch,
                   running_corrects, best_acc, best_model_wts, history, calls, iterated,
                   ms, saved, predictions>>

\* do_it: ms = get_ms_past_epoch()
CaptureMs ==
    /\ pc = "get_ms"
    /\ \E t \in ClockReadings :
        /\ now' = t
        /\ ms' = Some(t)
    /\ calls' = [calls EXCEPT !.get_ms = @ + 1]
    /\ pc' = "save_model"
    /\ UNCHANGED <<seed, rerun, args, env, data_transforms, dataset_sizes, num_classes, model,
                   printed, optimizer, last_epoch, is_inception, epoch, phase, batch,
                   running_corrects, best_acc, best_model_wts, history, iterated,
                   saved, predictions>>

\* save_model's o_dir
OutputDir(output_dir) ==
    IF IsNone(output_dir) \/ Len(Strip(Val(output_dir))) = 0
    THEN <<"/", "t", "m", "p">>
    ELSE Strip(Val(output_dir))

\* save_model left to its default for ms.
SaveModelMs_default == ImportTimeMs

\* The ms do_it passes to save_model.
SaveModelMs == Val(ms)

\* save_model: '<o_dir>/oneoffcoder-<ms>-<model_type>.pth' gets the
\* model's state_dict.
save_model(model_type, m, t, output_dir) ==
    [dir |-> OutputDir(output_dir), ms |-> t, model_type |-> model_type,
     state |-> state_dict(m)]

\* do_it: save_model(model_type, model, ms=ms, output_dir=output_dir)
SaveModel ==
    /\ pc = "save_model"
    /\ saved' = Append(saved, save_model(args.model_type, model, SaveModelMs,
                                         args.output_dir))
    /\ pc' = "predictions"
    /\ UNCHANGED <<seed, rerun, args, env, now, data_transforms, dataset_sizes, num_classes, model,
                   printed, optimizer, last_epoch, is_inception, epoch, phase, batch,
                   running_corrects, best_acc, best_model_wts, history, calls, iterated,
                   ms, predictions>>

\* do_it: p = get_predictions(model, dataloaders); save_predictions(p, ms, ...)
SavePredictions ==
    /\ pc = "predictions"
    /\ predictions' = Append(predictions, [ms |-> Val(ms), output_dir |-> args.output_dir])
    /\ pc' = "done"
    /\ UNCHANGED <<seed, rerun, args, env, now, data_transforms, dataset_sizes, num_classes, model,
                   printed, optimizer, last_epoch, is_inception, epoch, phase, batch,
                   running_corrects, best_acc, best_model_wts, history, calls, iterated,
                   ms, saved>>

Next ==
    \/ SeedGenerators
    \/ CreateDataTransforms
    \/ CreateDataLoaders
    \/ ConstructModel
    \/ ConstructOptimizer
    \/ TrainEntry
    \/ EpochStart
    \/ PhaseStart
    \/ BatchStep
    \/ PhaseEnd
    \/ EpochEnd
    \/ LoadBest
    \/ CaptureMs
    \/ SaveModel
    \/ SavePredictions

\* ------------------------------------------------------------ the inputs

\* --seed's default.
DefaultSeed == 1299827

\* A run with the defaults of parse_args where the model keeps them small:
\* one epoch over one item per split.
BaseArgs ==
    [model_type |-> "resnet18", feature_extract |-> FALSE, pretrained |-> TRUE,
     load_model |-> None, transform |-> None, epochs |-> 1, batch_size |-> 1,
     momentum |-> 1, output_dir |-> Some(<<"o">>), seed |-> DefaultSeed]

\* No file at the path of --load_model.
Missing == [state |-> "missing", cls |-> "none", classes |-> 0, wts |-> 0]

BaseEnv ==
    [sizes |-> [p \in Samples |-> 1], classes |-> 2, ckpt |-> Missing,
     set_to_none |-> FALSE, latest |-> ImportTimeMs + 1]

\* The files --load_model may point to: none, one that does not unpickle,
\* the weights of this architecture for this many classes, for one class
\* more, and the weights of another architecture.
Ckpts(model_type, classes) ==
    {Missing,
     [state |-> "corrupt", cls |-> "none", classes |-> 0, wts |-> 0],
     [state |-> "ok", cls |-> ZooClass(model_type), classes |-> classes, wts |-> 3],
     [state |-> "ok", cls |-> ZooClass(model_type), classes |-> classes + 1, wts |-> 3],
     [state |-> "ok", cls |-> "LeNet", classes |-> classes, wts |-> 3]}

\* --load_model: not given, empty, blank, a path, a path with a blank before it.
LoadPaths == {None, Some(<<>>), Some(<<" ">>), Some(<<"m">>), Some(<<" ", "m">>)}

\* Every name create_model has a branch for, and two it has none for.
ModelTypes == BranchNames \cup {"inception_v3", "lenet"}

\* The -t options of the transforms runs.
StepSet ==
    {[phase |-> p, type |-> t, order |-> o, arg |-> IF t = "Resize" THEN 64 ELSE 0] :
        p \in Samples, t \in {"Resize", "ToTensor"}, o \in {-1, 0, 1}}

StepLists == UNION {[1..n -> StepSet] : n \in 1..MaxSteps}

\* The whole run on few inputs, the clock and the output directory varied.
Init ==
    \E mt \in {"resnet18", "inception_v3", "resnext50_32x4d"}, e \in 0..1,
       o \in {Some(<<"o">>), Some(<<" ">>), Some(<<" ", "o">>)}, n \in 1..MaxItems,
       fe \in BOOLEAN :
        Start([BaseArgs EXCEPT !.model_type = mt, !.epochs = e, !.output_dir = o,
                               !.feature_extract = fe],
              [BaseEnv EXCEPT !.sizes = [p \in Samples |-> n], !.latest = MaxClock])

Spec == Init /\ [][Next]_vars

\* The data set sizes of a run: the train and the test split, one item in
\* valid.
Sizes(ntrain, ntest) ==
    [p \in Samples |-> CASE p = "train" -> ntrain [] p = "test" -> ntest [] OTHER -> 1]

\* The runs that vary what train_model sees: the epochs; the batch size and
\* the sizes of the train and test splits; and, over as many epochs as the
\* first and two batches a phase, the momentum, the way gradients are
\* cleared, frozen features and the auxiliary head.
InitTrain ==
    \/ \E e \in 0..MaxEpochs :
        Start([BaseArgs EXCEPT !.epochs = e], BaseEnv)
    \/ \E b \in {1, 2}, ntrain \in 1..MaxItems, ntest \in 1..MaxItems :
        Start([BaseArgs EXCEPT !.batch_size = b],
              [BaseEnv EXCEPT !.sizes = Sizes(ntrain, ntest)])
    \/ \E mt \in {"resnet18", "inception_v3"}, fe \in BOOLEAN, mu \in {0, 1},
          tn \in BOOLEAN :
        Start([BaseArgs EXCEPT !.model_type = mt, !.feature_extract = fe,
                               !.epochs = MaxEpochs, !.momentum = mu],
              [BaseEnv EXCEPT !.sizes = Sizes(2, 2), !.set_to_none = tn])

\* Nothing but the program's own steps stops a run.
SpecTrain == InitTrain /\ [][Next]_vars /\ WF_vars(Next)

\* The runs that vary what get_model sees.
InitModel ==
    \E mt \in ModelTypes, fe \in BOOLEAN, pt \in BOOLEAN, path \in LoadPaths,
       k \in 1..MaxClasses :
        \E ckpt \in (IF BlankPath(path) THEN {Missing} ELSE Ckpts(mt, k)) :
            Start([BaseArgs EXCEPT !.model_type = mt, !.feature_extract = fe,
                                   !.pretrained = pt, !.load_model = path],
                  [BaseEnv EXCEPT !.classes = k, !.ckpt = ckpt])

SpecModel == InitModel /\ [][Next]_vars

\* The runs that vary the -t options.
InitTransforms ==
    \E mt \in {"resnet18", "inception_v3"},
       t \in {None} \cup {Some(l) : l \in StepLists} :
        Start([BaseArgs EXCEPT !.model_type = mt, !.transform = t], BaseEnv)

SpecTransforms == InitTransforms /\ [][Next]_vars

\* The runs that vary --seed and the time.
InitSeed ==
    \E sd \in {-1, 0, 1, DefaultSeed}, e \in 0..1, n \in 1..MaxItems :
        Start([BaseArgs EXCEPT !.seed = sd, !.epochs = e],
              [BaseEnv EXCEPT !.sizes = [p \in Samples |-> n], !.latest = MaxClock])

SpecSeed == InitSeed /\ [][Next]_vars

\* ------------------------------------------------------------ properties

\* The statements of train_model's loop.
InLoop == pc \in {"epoch_start", "phase_start", "batch", "phase_end", "epoch_end"}

\* train_model has returned.
TrainComplete == pc \in {"get_ms", "save_model", "predictions", "done"}

\* The phases of history that are evaluations.
TestRuns == {i \in DOMAIN history : history[i].phase = "test"}

\* The accuracy the evaluation phase that is ending will report.
EndingAcc == Acc(running_corrects, dataset_sizes["test"])

\* An evaluation phase is ending with an accuracy above the best so far.
EndingTestImproves ==
    pc = "phase_end" /\ Phases[phase] = "test" /\ AccGT(EndingAcc, best_acc)

\* C1: in every step of train_model's loop, best_acc and best_model_wts become
\* the ending evaluation's accuracy and the current weights if that step ends
\* an evaluation phase whose accuracy is strictly above best_acc, and stay as
\* they are in every other step; best_acc never decreases.
C1_BestSnapshot ==
    [][InLoop =>
          /\ IF EndingTestImproves
             THEN best_acc' = EndingAcc /\ best_model_wts' = model.wts
             ELSE UNCHANGED <<best_acc, best_model_wts>>
          /\ ~AccGT(best_acc, best_acc')]_vars

\* An evaluation took the snapshot and a later one, no better, left it alone
\* although the weights had moved on.
C1_Witness ==
    /\ pc = "epoch_end"
    /\ \E i, j \in TestRuns :
        /\ i < j
        /\ AccGT(history[i].acc, Acc(0, 1))
        /\ ~AccGT(history[j].acc, history[i].acc)
        /\ best_acc = history[i].acc
        /\ best_model_wts = history[i].wts
        /\ best_model_wts # history[j].wts

\* No evaluation of history scored above evaluation i.
HighestAcc(i) == \A j \in TestRuns : ~AccGT(history[j].acc, history[i].acc)

\* The first evaluation with the highest accuracy.
EarliestBest == CHOOSE i \in TestRuns : HighestAcc(i) /\ \A j \in TestRuns : HighestAcc(j) => i <= j

\* The weights train_model was entered with: those of the model get_model
\* returned.
EntryWts ==
    get_model(args.model_type, num_classes, args.feature_extract, args.pretrained,
              args.load_model, env.ckpt).model.wts

\* C2 as claimed: after a run of at least one epoch the returned weights are
\* those at the end of the evaluation phase of an epoch with the highest
\* evaluation accuracy.
C2_Original ==
    (pc = "get_ms" /\ args.epochs > 0) =>
        \E i \in TestRuns : HighestAcc(i) /\ model.wts = history[i].wts

\* C2: when train_model returns, the model has the weights it had at the end
\* of the evaluation phase of the earliest epoch with the highest evaluation
\* accuracy if some epoch scored above 0, and the weights it was entered
\* with otherwise.
C2_ReturnsBest ==
    pc = "get_ms" =>
        IF \E i \in TestRuns : AccGT(history[i].acc, Acc(0, 1))
        THEN model.wts = history[EarliestBest].wts
        ELSE model.wts = EntryWts

\* train_model returned the weights of an epoch that was not the last, and
\* the last epoch's weights differ.
C2_Witness ==
    /\ pc = "get_ms"
    /\ \E i, j \in TestRuns :
        /\ i < j
        /\ j = Len(history)
        /\ AccGT(history[i].acc, history[j].acc)
        /\ HighestAcc(i)
        /\ model.wts = history[i].wts
        /\ model.wts # history[j].wts

\* Entry i of history is the phase a run of whole epochs has in that place,
\* and it consumed each batch of its split once.
RegularPhase(i) ==
    /\ history[i].phase = Phases[((i - 1) % 2) + 1]
    /\ history[i].epoch = (i - 1) \div 2
    /\ history[i].batches = NumBatches(dataset_sizes[history[i].phase], args.batch_size)

\* The phases finished so far are train, test, train, test, ..., and one
\* that is running follows the one before it.
RegularSoFar ==
    /\ \A i \in DOMAIN history : RegularPhase(i)
    /\ pc \in {"phase_start", "batch", "phase_end"} => Len(history) = 2 * epoch + phase - 1
    /\ pc \in {"epoch_start"} => Len(history) = 2 * epoch
    /\ pc \in {"epoch_end"} => Len(history) = 2 * epoch + 2
    /\ pc = "batch" => batch <= NumBatches(dataset_sizes[Phases[phase]], args.batch_size)
    /\ (pc = "load_best" \/ TrainComplete) => Len(history) = 2 * args.epochs

\* C3: train_model runs exactly num_epochs epochs, each one training phase
\* followed by one evaluation phase, each phase consuming every batch of its
\* split once, and then it returns.
C3_EpochsThenComplete == []RegularSoFar /\ <>TrainComplete

\* Two whole epochs were run, with a phase of more than one batch.
C3_Witness ==
    /\ TrainComplete
    /\ args.epochs = 2
    /\ Len(history) = 4
    /\ \E i \in DOMAIN history : history[i].batches > 1

\* The training phases train_model has started.
TrainPhasesStarted ==
    IF pc = "epoch_start" \/ (pc = "phase_start" /\ phase = 1) THEN epoch ELSE epoch + 1

\* C7: in train_model the scheduler is stepped only at the head of a
\* training phase, once, before the phase's first batch; it has been stepped
\* once per training phase started, and num_epochs times when train_model
\* returns.
C7_SchedulerSteps ==
    /\ [][(InLoop /\ last_epoch' # last_epoch) =>
             /\ pc = "phase_start"
             /\ Phases[phase] = "train"
             /\ last_epoch' = last_epoch + 1
             /\ pc' = "batch"
             /\ batch' = 0]_vars
    /\ [](InLoop => last_epoch = TrainPhasesStarted)
    /\ []((pc = "load_best" \/ TrainComplete) => last_epoch = args.epochs)

\* Two epochs of two training batches each left the scheduler at two steps.
C7_Witness ==
    /\ TrainComplete
    /\ args.epochs = 2
    /\ last_epoch = 2
    /\ \E i \in DOMAIN history : history[i].phase = "train" /\ history[i].batches = 2

\* C8: no step of an evaluation phase runs a backward pass or an optimizer
\* step or changes a parameter, so the parameters at the end of an
\* evaluation phase are those the training phase before it ended with; and
\* train_model never iterates the 'valid' loader.
C8_EvalFrame ==
    /\ [][(pc \in {"phase_start", "batch", "phase_end"} /\ Phases[phase] = "test") =>
             /\ model'.wts = model.wts
             /\ calls'.backward = calls.backward
             /\ calls'.step = calls.step]_vars
    /\ [](\A i \in TestRuns : i > 1 /\ history[i].wts = history[i - 1].wts)
    /\ []("valid" \notin iterated)

\* An evaluation phase of two batches ended after a training phase that had
\* changed the parameters.
C8_Witness ==
    /\ pc = "epoch_end"
    /\ history[Len(history)].phase = "test"
    /\ history[Len(history)].batches = 2
    /\ history[Len(history)].wts # EntryWts
    /\ calls.backward > 0

\* get_model is behind the run.
PastGetModel == pc \notin {"seed", "transforms", "loaders", "get_model"}

\* C4 as claimed: for every name create_model has a branch for and every
\* class count, the model is created and the layer it computes its output
\* with has num_classes outputs.
C4_HeadWidth ==
    PastGetModel =>
        /\ model.cls # "none"
        /\ model.out[OutputLayer(model.cls)] = num_classes

\* Loading the weights of --load_model fails.
LoadFails ==
    ~load_model(args.model_type, num_classes, args.feature_extract, env.ckpt).ok

\* What create_model returns for the caller's settings.
FreshModel ==
    create_model(args.model_type, num_classes, args.feature_extract, args.pretrained).model

\* C5 as claimed: no exception escapes get_model; with a blank path or none
\* it loads nothing and returns a new model; with a path whose weights
\* cannot be loaded it reports that and returns a new model built with the
\* caller's pretrained and freeze settings.
C5_LoadFallback ==
    PastGetModel =>
        /\ BlankPath(args.load_model) =>
              /\ printed = <<"creating new model">>
              /\ pc = "optimizer" => model = FreshModel
        /\ ~BlankPath(args.load_model) /\ LoadFails =>
              /\ printed = <<"loading model", "could not load model">>
              /\ model.cls # "none"
              /\ pc = "optimizer" => model = FreshModel

\* The -t options name a step for phase p.
UserGave(p) ==
    /\ ~IsNone(args.transform)
    /\ \E i \in DOMAIN Val(args.transform) : Val(args.transform)[i].phase = p

\* C6: for each of train, test and valid, the pipeline do_it gets is the
\* pipeline made of the user's steps for that phase if the user gave a step
\* for it, and the default pipeline of that phase otherwise.
C6_TransformOverride ==
    pc \notin {"seed", "transforms"} =>
        \A p \in Samples :
            data_transforms[p] =
                IF UserGave(p)
                THEN get_transforms(Val(args.transform))[p]
                ELSE get_default_transforms(get_input_size(args.model_type))[p]

\* Two steps were given for train alone: train runs them in their order and
\* test and valid keep their defaults.
C6_Witness ==
    /\ pc = "loaders"
    /\ UserGave("train") /\ ~UserGave("test") /\ ~UserGave("valid")
    /\ Len(data_transforms["train"]) = 2
    /\ data_transforms["train"][1].type # data_transforms["train"][2].type
    /\ data_transforms["train"] # get_default_transforms(224)["train"]
    /\ data_transforms["test"] = get_default_transforms(224)["test"]
    /\ data_transforms["valid"] = get_default_transforms(224)["valid"]

\* The layers create_model attached.
NewLayers == {l \in DOMAIN model.fresh : model.fresh[l]}

\* C9: once do_it has built the optimizer, with -f the parameters that
\* require a gradient, and the parameters of the optimizer, are exactly those
\* of the layers create_model attached (both heads for Inception v3), and
\* the pretrained layers keep their weights through training; without -f
\* the optimizer has every parameter of the model.
C9_FrozenFeatures ==
    (pc \notin {"seed", "transforms", "loaders", "get_model", "optimizer"} /\ model.cls # "none") =>
        IF args.feature_extract
        THEN /\ {l \in DOMAIN model.requires_grad : model.requires_grad[l]} = NewLayers
             /\ optimizer.params = NewLayers
             /\ NewLayers = HeadLayers(model.cls)
             /\ "backbone" \notin optimizer.params
             /\ model.wts["backbone"] = EntryWts["backbone"]
        ELSE optimizer.params = ClassLayers(model.cls)

\* An Inception v3 with frozen features was trained: both new heads moved and
\* the pretrained layers did not.
C9_Witness ==
    /\ pc = "epoch_end"
    /\ args.feature_extract
    /\ model.cls = "Inception3"
    /\ optimizer.params = {"fc", "AuxLogits.fc"}
    /\ model.wts["fc"] # EntryWts["fc"]
    /\ model.wts["AuxLogits.fc"] # EntryWts["AuxLogits.fc"]
    /\ model.wts["backbone"] = EntryWts["backbone"]

C11_SeedChoice ==
    ~IsNone(seed) =>
        IF args.seed < 0
        THEN pc = "transforms" => Val(seed) = now
        ELSE Val(seed) = args.seed

\* The accuracies this run has reported, phase by phase.
ReportedAccs == [i \in DOMAIN history |-> history[i].acc]

\* C12 as claimed: two runs of one command line with a fixed seed (0 or
\* more) over the same data report the same accuracies.
C12_Determinism ==
    (args.seed >= 0 /\ TrainComplete) => rerun.accs = ReportedAccs

\* C13 as claimed: the optimizer step at the head of a training phase leaves
\* every parameter as it was, in every epoch.
C13_HeadStepNoEffect ==
    [][(pc = "phase_start" /\ Phases[phase] = "train") => model'.wts = model.wts]_vars

\* The model train_model works on has an auxiliary head.
HasAuxHead == AuxLayers(model.cls) # {}

\* C14 as claimed: for every name the model built is Inception v3 exactly
\* when determine_inception is true and get_input_size is 299, and a batch
\* takes the auxiliary-weighted loss exactly when it is a training batch of a
\* model with an auxiliary head.
C14_NameDecisionsAgree ==
    /\ (PastGetModel /\ model.cls # "none") =>
          ((model.cls = "Inception3") <=>
             (determine_inception(args.model_type) /\ get_input_size(args.model_type) = 299))
    /\ pc = "batch" =>
          (AuxLoss(is_inception, Phases[phase]) <=> (Phases[phase] = "train" /\ HasAuxHead))

\* No evaluation of history scored above 0.
NoneAboveZero == \A i \in TestRuns : ~AccGT(history[i].acc, Acc(0, 1))

\* Evaluation i scored above 0 and above every evaluation before it, and
\* none after it scored higher: the earliest of those with the highest
\* accuracy.
EarliestOfHighest(i) ==
    /\ AccGT(history[i].acc, Acc(0, 1))
    /\ \A j \in TestRuns : j < i => AccGT(history[i].acc, history[j].acc)
    /\ \A j \in TestRuns : j > i => ~AccGT(history[j].acc, history[i].acc)

\* C15: once train_model has returned, the model has the weights it was
\* entered with if no evaluation scored above 0 (none was run, or all scored
\* 0), and otherwise the weights of the earliest of the evaluations that
\* share the highest accuracy.
C15_EntryOrEarliest ==
    TrainComplete =>
        /\ NoneAboveZero => model.wts = EntryWts
        /\ \A i \in TestRuns : EarliestOfHighest(i) => model.wts = history[i].wts

\* Two epochs moved the weights and scored 0 both times: the weights of
\* entry came back.
C15_Witness ==
    /\ TrainComplete
    /\ Len(history) = 4
    /\ NoneAboveZero
    /\ history[2].wts # EntryWts
    /\ history[4].wts # history[2].wts
    /\ model.wts = EntryWts

====
